---- MODULE Spec2Model ----
(***************************************************************************)
(* Student-evaluation stack: the API facade (EvaluationApiFunction, in its *)
(* two variants), the agent-facing lookup (GetDataFromDynamoDb) and the    *)
(* scheduled orchestration loop (CallAgentFunction), over DynamoDB tables, *)
(* the Bedrock agent and the SNS topic as external services.               *)
(*                                                                         *)
(* Conventions.  A Python dict is a function whose DOMAIN is the set of    *)
(* its keys; d.get(k) is the set Get(d, k): {} for None, {v} for a value.  *)
(* students_id is a sequence of one-character strings, so that int() and   *)
(* str() can be computed on it; the other texts are TLA+ strings.  The     *)
(* Python code of cdk/lib/cdk-stack.ts and students-evaluate-app/cfn.yaml  *)
(* is the same text; line numbers refer to cdk-stack.ts.                   *)
(***************************************************************************)
EXTENDS Integers, Sequences, FiniteSets, TLC

VARIABLES
    store,      \* table name -> (key -> item); an item is attribute -> value
    now,        \* the wall clock, in seconds
    last,       \* the response a facade or lookup handler has just returned, with its
                \* request, its store calls and what it changed; NoResponse otherwise
    written,    \* history: key -> what the last successful facade PUT stored, until overwritten
    pc,         \* per orchestration run: position in lambda_handler
    ev,         \* per run: the scheduled payload
    students_id, \* per run: students_id as read from the payload
    period,     \* per run: period as read from the payload
    loop_count, \* per run
    current_id, \* per run
    i,          \* per run: loop index
    results,    \* per run: ids appended to results
    agent_response, \* per run: text collected from the current stream
    delivered,  \* per run: history of the events the stream being read has delivered
    ret,        \* per run: {} while running, {statusCode} once returned
    published,  \* per run: notifications delivered to the topic, in order
    trace       \* per run: history of external calls and pauses, in order

vars == <<store, now, last, written, pc, ev, students_id, period, loop_count,
          current_id, i, results, agent_response, delivered, ret, published, trace>>

runVars == <<pc, ev, students_id, period, loop_count, current_id, i, results,
             agent_response, delivered, ret, published, trace>>

-----------------------------------------------------------------------------
(* Bounds of the model *)

MaxNow == 1        \* the clock's free ticks stop here
MaxLoop == 2       \* largest explicit loop_count of a payload
MaxEvents == 2     \* stream events delivered by one agent call

-----------------------------------------------------------------------------
(* Python values *)

Get(d, k) == IF k \in DOMAIN d THEN {d[k]} ELSE {}

Val(o) == CHOOSE v \in o : TRUE

EmptyDict == <<>>

Digits == <<"0", "1", "2", "3", "4", "5", "6", "7", "8", "9">>

IsDigit(c) == \E d \in 1..10 : Digits[d] = c

DigitVal(c) == (CHOOSE d \in 1..10 : Digits[d] = c) - 1

IsSpace(c) == c = " "

RECURSIVE LStrip(_)
LStrip(s) == IF s # <<>> /\ IsSpace(Head(s)) THEN LStrip(Tail(s)) ELSE s

RECURSIVE RStrip(_)
RStrip(s) == IF s # <<>> /\ IsSpace(s[Len(s)]) THEN RStrip(SubSeq(s, 1, Len(s) - 1)) ELSE s

Strip(s) == RStrip(LStrip(s))

Unsigned(s) == IF s # <<>> /\ Head(s) \in {"+", "-"} THEN Tail(s) ELSE s

\* int(str): surrounding blanks, one optional sign, then decimal digits
IsInt(s) ==
    LET u == Unsigned(Strip(s))
    IN  u # <<>> /\ \A k \in 1..Len(u) : IsDigit(u[k])

RECURSIVE DigitsVal(_)
DigitsVal(u) ==
    IF u = <<>> THEN 0
    ELSE 10 * DigitsVal(SubSeq(u, 1, Len(u) - 1)) + DigitVal(u[Len(u)])

ParseInt(s) ==
    LET t == Strip(s)
    IN  IF t # <<>> /\ Head(t) = "-" THEN 0 - DigitsVal(Tail(t)) ELSE DigitsVal(Unsigned(t))

RECURSIVE NatToStr(_)
NatToStr(n) ==
    IF n < 10 THEN <<Digits[n + 1]>> ELSE NatToStr(n \div 10) \o <<Digits[(n % 10) + 1]>>

\* str(int)
IntToStr(n) == IF n < 0 THEN <<"-">> \o NatToStr(0 - n) ELSE NatToStr(n)

\* JSON values that may be a number or a text
JNum(n) == [number |-> n]

JStr(x) == [string |-> x]

\* what boto3 hands back for a value once DynamoDB has stored it: a number is a Decimal
ToAttribute(v) == IF "number" \in DOMAIN v THEN [decimal |-> v.number] ELSE v

AsStored(list) == [k \in DOMAIN list |-> ToAttribute(list[k])]

\* json.dumps raises TypeError on a Decimal
Dumpable(item) ==
    \/ "achievements" \notin DOMAIN item
    \/ \A k \in DOMAIN item.achievements : "decimal" \notin DOMAIN item.achievements[k]

\* datetime.now().isoformat()
IsoFormat(t) == [fmt |-> "iso", t |-> t]

\* datetime.now().isoformat().replace(':', '_').replace('.', '_')
SafeStamp(t) == [fmt |-> "iso_underscored", t |-> t]

-----------------------------------------------------------------------------
(* DynamoDB tables *)

Tables == {"students-evaluation-by-q", "students-evaluation"}

\* TABLE_NAME of EvaluationApiFunction in cdk-stack.ts and students-evaluate-app/cfn.yaml
ApiTableName == "students-evaluation-by-q"

\* TABLE_NAME of EvaluationApiFunction in sample-cfn
SampleTableName == "students-evaluation"

\* the table GetDataFromDynamoDb queries
LookupTableName == "students-evaluation"

\* the table CallAgentFunction updates
CallAgentTableName == "students-evaluation"

\* lines 39-50, 408-417: the DynamoDB actions each role's policies allow, and on
\* which table; the managed policies of CallAgentRole (SNS, Bedrock, basic
\* execution) allow none
RolePolicy ==
    [LambdaExecutionRole |-> [actions |-> {"GetItem", "Query", "UpdateItem"},
                              tables |-> {"students-evaluation-by-q"}],
     CallAgentRole |-> [actions |-> {}, tables |-> {}]]

Key(sid, p) == <<sid, p>>

\* response.get('Item', {})
ItemOf(tbl, k) == IF k \in DOMAIN tbl THEN tbl[k] ELSE EmptyDict

Upsert(f, k, v) == [x \in (DOMAIN f) \cup {k} |-> IF x = k THEN v ELSE f[x]]

\* PutItem: the item replaces whatever the key held
PutItem(tbl, item) == Upsert(tbl, Key(item.students_id, item.period), item)

\* an update that assigns the attributes on every item of the table as well
UpdateItemSetAll(tbl, sid, p, assigned) ==
    LET keys == (DOMAIN tbl) \cup {Key(sid, p)}
    IN  [k \in keys |->
            LET old == IF k \in DOMAIN tbl THEN tbl[k] ELSE [students_id |-> sid, period |-> p]
            IN  [a \in (DOMAIN old) \cup (DOMAIN assigned) |->
                    IF a \in DOMAIN assigned THEN assigned[a] ELSE old[a]]]

\* UpdateItem with SET: the named attributes are assigned, the others kept; a
\* missing item is created from its key
UpdateItemSet(tbl, sid, p, assigned) ==
    LET old == IF Key(sid, p) \in DOMAIN tbl THEN tbl[Key(sid, p)]
               ELSE [students_id |-> sid, period |-> p]
        new == [a \in (DOMAIN old) \cup (DOMAIN assigned) |->
                   IF a \in DOMAIN assigned THEN assigned[a] ELSE old[a]]
    IN  Upsert(tbl, Key(sid, p), new)

\* Query with KeyConditionExpression students_id = :sid AND period = :p
QueryItems(tbl, sid, p) == IF Key(sid, p) \in DOMAIN tbl THEN <<tbl[Key(sid, p)]>> ELSE <<>>

-----------------------------------------------------------------------------
(* Handler responses *)

\* a call of the store, and whether it returned
Call(action, table, ok) == [action |-> action, table |-> table, ok |-> ok]

Response(status, body, calls, tbls) ==
    [statusCode |-> status, body |-> body, calls |-> calls, store |-> tbls]

\* `not x` for an optional sequence (a students_id, a list)
FalsySeq(o) == o = {} \/ o = {<<>>}

\* `not x` for an optional text
FalsyStr(o) == o = {} \/ o = {""}

\* json.loads(text) raises unless the text is JSON
JsonLoads(text) == IF text.t = "invalid" THEN {} ELSE {text}

\* x.get(...) raises unless x is a dict
IsDict(j) == j.t = "object"

-----------------------------------------------------------------------------
(* EvaluationApiFunction of cdk-stack.ts and students-evaluate-app/cfn.yaml *)

InternalServerError(calls, tbls) ==
    Response(500, [message |-> "Internal server error"], calls, tbls)

\* an item stamped with a fixed time instead of the time of the write
ApiItemEpoch(sid, p, achievements, t) ==
    [students_id |-> sid, period |-> p, achievements |-> AsStored(achievements),
     updated_at |-> IsoFormat(0)]

\* an item put without its timestamp
ApiItemUnstamped(sid, p, achievements, t) ==
    [students_id |-> sid, period |-> p, achievements |-> AsStored(achievements)]

\* lines 115-123: the item put_item stores
ApiItem(sid, p, achievements, t) ==
    [students_id |-> sid, period |-> p, achievements |-> AsStored(achievements),
     updated_at |-> IsoFormat(t)]

\* a GET that answers a store miss with an error status
ApiGetMiss404(event, tbls, storeOk) ==
    LET qsp == Get(event, "queryStringParameters")
        query_params == IF qsp = {} \/ Val(qsp) = {} THEN EmptyDict ELSE Val(Val(qsp))
        sid == Get(query_params, "students_id")
        p == Get(query_params, "period")
        calls == <<Call("GetItem", ApiTableName, storeOk)>>
    IN  IF FalsySeq(sid) \/ FalsyStr(p)
        THEN Response(400, [message |-> "students_id and period are required"], <<>>, tbls)
        ELSE IF ~storeOk \/ ~Dumpable(ItemOf(tbls[ApiTableName], Key(Val(sid), Val(p))))
        THEN InternalServerError(calls, tbls)
        ELSE IF Key(Val(sid), Val(p)) \notin DOMAIN tbls[ApiTableName]
        THEN Response(404, [message |-> "not found"], calls, tbls)
        ELSE Response(200, ItemOf(tbls[ApiTableName], Key(Val(sid), Val(p))), calls, tbls)

\* lines 76-100: GET
ApiGet(event, tbls, storeOk) ==
    LET qsp == Get(event, "queryStringParameters")
        \* event.get('queryStringParameters', {}) or {}
        query_params == IF qsp = {} \/ Val(qsp) = {} THEN EmptyDict ELSE Val(Val(qsp))
        sid == Get(query_params, "students_id")
        p == Get(query_params, "period")
        calls == <<Call("GetItem", ApiTableName, storeOk)>>
    IN  IF FalsySeq(sid) \/ FalsyStr(p)
        THEN Response(400, [message |-> "students_id and period are required"], <<>>, tbls)
        ELSE IF ~storeOk \/ ~Dumpable(ItemOf(tbls[ApiTableName], Key(Val(sid), Val(p))))
        THEN \* get_item or json.dumps raises
             InternalServerError(calls, tbls)
        ELSE Response(200, ItemOf(tbls[ApiTableName], Key(Val(sid), Val(p))), calls, tbls)

\* a PUT that does not look at achievements before it stores
ApiPutUnchecked(event, tbls, t, storeOk) ==
    IF "body" \notin DOMAIN event \/ event.body = {} \/ JsonLoads(Val(event.body)) = {}
       \/ ~IsDict(Val(event.body))
    THEN InternalServerError(<<>>, tbls)
    ELSE LET body == Val(event.body).v
             sid == Get(body, "students_id")
             p == Get(body, "period")
             achievements == IF "achievements" \in DOMAIN body THEN body.achievements ELSE <<>>
             calls == <<Call("PutItem", ApiTableName, storeOk)>>
         IN  IF FalsySeq(sid) \/ FalsyStr(p)
             THEN Response(400, [message |-> "students_id, period, and achievements are required"],
                           <<>>, tbls)
             ELSE IF ~storeOk
             THEN InternalServerError(calls, tbls)
             ELSE Response(200, [message |-> "Data saved successfully"], calls,
                           [tbls EXCEPT ![ApiTableName] =
                               PutItem(@, ApiItem(Val(sid), Val(p), achievements, t))])

\* a PUT whose item is stored although the call is reported as failed
ApiPutApplied(event, tbls, t, storeOk) ==
    IF "body" \notin DOMAIN event \/ event.body = {} \/ JsonLoads(Val(event.body)) = {}
       \/ ~IsDict(Val(event.body))
    THEN InternalServerError(<<>>, tbls)
    ELSE LET body == Val(event.body).v
             sid == Get(body, "students_id")
             p == Get(body, "period")
             achievements == IF "achievements" \in DOMAIN body THEN body.achievements ELSE <<>>
             calls == <<Call("PutItem", ApiTableName, storeOk)>>
             stored == [tbls EXCEPT ![ApiTableName] =
                           PutItem(@, ApiItem(Val(sid), Val(p), achievements, t))]
         IN  IF FalsySeq(sid) \/ FalsyStr(p) \/ achievements = <<>>
             THEN Response(400, [message |-> "students_id, period, and achievements are required"],
                           <<>>, tbls)
             ELSE IF ~storeOk
             THEN InternalServerError(calls, stored)
             ELSE Response(200, [message |-> "Data saved successfully"], calls, stored)

\* lines 102-131: PUT
ApiPut(event, tbls, t, storeOk) ==
    IF "body" \notin DOMAIN event \/ event.body = {} \/ JsonLoads(Val(event.body)) = {}
       \/ ~IsDict(Val(event.body))
    THEN \* event['body'], json.loads or body.get raises
         InternalServerError(<<>>, tbls)
    ELSE LET body == Val(event.body).v
             sid == Get(body, "students_id")
             p == Get(body, "period")
             \* body.get('achievements', [])
             achievements == IF "achievements" \in DOMAIN body THEN body.achievements ELSE <<>>
             calls == <<Call("PutItem", ApiTableName, storeOk)>>
         IN  IF FalsySeq(sid) \/ FalsyStr(p) \/ achievements = <<>>
             THEN Response(400, [message |-> "students_id, period, and achievements are required"],
                           <<>>, tbls)
             ELSE IF ~storeOk
             THEN InternalServerError(calls, tbls)
             ELSE Response(200, [message |-> "Data saved successfully"], calls,
                           [tbls EXCEPT ![ApiTableName] =
                               PutItem(@, ApiItem(Val(sid), Val(p), achievements, t))])

ApiLambdaHandler(event, tbls, t, storeOk) ==
    IF "httpMethod" \notin DOMAIN event
    THEN InternalServerError(<<>>, tbls)
    ELSE IF event.httpMethod = "GET" THEN ApiGet(event, tbls, storeOk)
    ELSE IF event.httpMethod = "PUT" THEN ApiPut(event, tbls, t, storeOk)
    ELSE Response(405, [message |-> "Method not allowed"], <<>>, tbls)

-----------------------------------------------------------------------------
(* EvaluationApiFunction of sample-cfn/cloudformation-template.yaml *)

SampleServerError(calls, tbls) ==
    Response(500, [message |-> "server error"], calls, tbls)

get_student_evaluation(tbl, sid, p) ==
    LET item == ItemOf(tbl, Key(sid, p))
    IN  IF item = EmptyDict
        THEN [message |-> "not found", students_id |-> sid, period |-> p]
        ELSE item

\* an update that stores a fresh item instead of setting one attribute
update_teacher_evaluation_put(tbl, sid, p, teacher_evaluation) ==
    PutItem(tbl, [students_id |-> sid, period |-> p, teacher_evaluation |-> teacher_evaluation])

\* update_item with SET teacher_evaluation = :te
update_teacher_evaluation(tbl, sid, p, teacher_evaluation) ==
    UpdateItemSet(tbl, sid, p, [teacher_evaluation |-> teacher_evaluation])

\* the dict update_teacher_evaluation returns; response.get('Attributes') under ALL_NEW
UpdatedResult(tbl, sid, p) ==
    [message |-> "updated", students_id |-> sid, period |-> p,
     updated_item |-> ItemOf(tbl, Key(sid, p))]

SampleLambdaHandler(event, tbls, storeOk) ==
    IF "httpMethod" \notin DOMAIN event
    THEN SampleServerError(<<>>, tbls)
    ELSE
    LET qsp == Get(event, "queryStringParameters")
        query_parameters == IF qsp = {} \/ Val(qsp) = {} THEN EmptyDict ELSE Val(Val(qsp))
        \* body = {}; if 'body' in event and event['body']: body = json.loads(event['body'])
        hasBody == "body" \in DOMAIN event /\ event.body # {}
    IN  IF hasBody /\ JsonLoads(Val(event.body)) = {}
        THEN SampleServerError(<<>>, tbls)
        ELSE
        LET body == IF hasBody THEN Val(event.body) ELSE [t |-> "object", v |-> EmptyDict]
        IN  IF event.httpMethod = "GET"
            THEN LET sid == Get(query_parameters, "students_id")
                     p == Get(query_parameters, "period")
                     calls == <<Call("GetItem", SampleTableName, storeOk)>>
                 IN  IF FalsySeq(sid) \/ FalsyStr(p)
                     THEN Response(400, [message |-> "both required"], <<>>, tbls)
                     ELSE IF ~storeOk
                     THEN SampleServerError(calls, tbls)
                     ELSE Response(200, get_student_evaluation(tbls[SampleTableName], Val(sid), Val(p)),
                                   calls, tbls)
            ELSE IF event.httpMethod = "PUT"
            THEN IF ~IsDict(body)
                 THEN SampleServerError(<<>>, tbls)
                 ELSE
                 LET sid == Get(body.v, "students_id")
                     p == Get(body.v, "period")
                     te == Get(body.v, "teacher_evaluation")
                     calls == <<Call("UpdateItem", SampleTableName, storeOk)>>
                 IN  IF FalsySeq(sid) \/ FalsyStr(p) \/ FalsyStr(te)
                     THEN Response(400, [message |-> "all three required"], <<>>, tbls)
                     ELSE IF ~storeOk
                     THEN SampleServerError(calls, tbls)
                     ELSE LET tbl == update_teacher_evaluation(tbls[SampleTableName],
                                                               Val(sid), Val(p), Val(te))
                          IN  Response(200, UpdatedResult(tbl, Val(sid), Val(p)), calls,
                                       [tbls EXCEPT ![SampleTableName] = tbl])
            ELSE Response(405, [message |-> "method not supported"], <<>>, tbls)

-----------------------------------------------------------------------------
(* GetDataFromDynamoDb: the agent's action group *)

GetDataFunction == "get-data-from-dynamodb"

\* next((param['value'] for param in parameters if param['name'] == name), None):
\* the value of the first parameter of that name, and whether a subscript raised
\* KeyError on the way to it
RECURSIVE FirstValue(_, _)
FirstValue(parameters, name) ==
    IF parameters = <<>> THEN [raised |-> FALSE, value |-> {}]
    ELSE LET param == Head(parameters)
         IN  IF "name" \notin DOMAIN param THEN [raised |-> TRUE, value |-> {}]
             ELSE IF param.name # name THEN FirstValue(Tail(parameters), name)
             ELSE IF "value" \notin DOMAIN param THEN [raised |-> TRUE, value |-> {}]
             ELSE [raised |-> FALSE, value |-> {param.value}]

\* what the lookup's query returns to the agent
lookup_get_student_evaluation(tbl, sid, p) ==
    LET items == QueryItems(tbl, sid, p)
    IN  IF items = <<>>
        THEN [message |-> "not found"]
        ELSE [students_id |-> sid, period |-> p, data |-> items]

\* the dict the agent gets back; it has no statusCode, written 0 here
ActionResponse(event, response_body, calls, tbls) ==
    Response(0,
             [response |-> [actionGroup |-> event.actionGroup, function |-> event.function,
                            responseBody |-> response_body],
              messageVersion |-> IF "messageVersion" \in DOMAIN event
                                 THEN event.messageVersion ELSE "1"],
             calls, tbls)

LookupLambdaHandler(event, tbls, storeOk) ==
    IF "actionGroup" \notin DOMAIN event \/ "function" \notin DOMAIN event
    THEN Response(400, [message |-> "Error: KeyError"], <<>>, tbls)
    ELSE IF event.function # GetDataFunction
    THEN ActionResponse(event, [text |-> "not implemented"], <<>>, tbls)
    ELSE
    LET parameters == IF "parameters" \in DOMAIN event THEN event.parameters ELSE <<>>
        sid == FirstValue(parameters, "students_id")
        p == FirstValue(parameters, "period")
        calls == <<Call("Query", LookupTableName, storeOk)>>
    IN  IF sid.raised \/ p.raised
        THEN Response(400, [message |-> "Error: KeyError"], <<>>, tbls)
        ELSE IF FalsySeq(sid.value) \/ FalsyStr(p.value)
        THEN ActionResponse(event, [text |-> "both required"], <<>>, tbls)
        ELSE IF ~storeOk
        THEN Response(500, [message |-> "Internal server error"], calls, tbls)
        ELSE ActionResponse(event,
                            [json |-> lookup_get_student_evaluation(tbls[LookupTableName],
                                                                    Val(sid.value), Val(p.value))],
                            calls, tbls)

-----------------------------------------------------------------------------
(* Requests the facade is given *)

Opt(S) == {{}} \cup {{v} : v \in S}

\* the dict holding the fields that are present
MkDict(opts) == [k \in {n \in DOMAIN opts : opts[n] # {}} |-> Val(opts[k])]

ValidIds == {<<"1">>, <<"2">>}

ValidPeriods == {"202504"}

\* lists of texts, and a list of a number
AchievementLists == {<<JStr("x")>>, <<JStr("y"), JStr("x")>>, <<JNum(1)>>}

\* a field that is missing, or present and empty
BadSeq == {{}, {<<>>}}

BadStr == {{}, {""}}

\* the key fields of a request: both good, or one of them bad, or both missing
KeyFields ==
    {<<{s}, {p}>> : s \in ValidIds, p \in ValidPeriods}
    \cup {<<b, {"202504"}>> : b \in BadSeq}
    \cup {<<{<<"1">>}, b>> : b \in BadStr}
    \cup {<<{}, {}>>}

GoodKey(k) == k[1] \in {{s} : s \in ValidIds} /\ k[2] \in {{p} : p \in ValidPeriods}

QueryDicts == {MkDict([students_id |-> k[1], period |-> k[2]]) : k \in KeyFields}

\* PUT bodies with achievements: a good key with a good or bad list, a bad key with a good list
AchievementBodies ==
    {MkDict([students_id |-> k[1], period |-> k[2], achievements |-> a]) :
        k \in {x \in KeyFields : GoodKey(x)}, a \in {{x} : x \in AchievementLists} \cup BadSeq}
    \cup {MkDict([students_id |-> k[1], period |-> k[2], achievements |-> {<<JStr("x")>>}]) :
             k \in {x \in KeyFields : ~GoodKey(x)}}

\* PUT bodies with teacher_evaluation
TeacherBodies ==
    {MkDict([students_id |-> k[1], period |-> k[2], teacher_evaluation |-> te]) :
        k \in {x \in KeyFields : GoodKey(x)}, te \in {{x} : x \in {"good"}} \cup {{""}}}

JsonObject(d) == [t |-> "object", v |-> d]

Malformed == {[t |-> "array", v |-> <<>>], [t |-> "invalid", v |-> <<>>]}

\* a GET may carry a body too
GetEvents ==
    {[httpMethod |-> "GET"]}
    \cup {[httpMethod |-> "GET", queryStringParameters |-> q] : q \in Opt(QueryDicts)}
    \cup {[httpMethod |-> "GET", queryStringParameters |-> q, body |-> {[t |-> "invalid", v |-> <<>>]}] :
             q \in {{}, {[students_id |-> <<"1">>, period |-> "202504"]}}}

PutEvents(bodies) ==
    {[httpMethod |-> "PUT"]}
    \cup {[httpMethod |-> "PUT", body |-> b] : b \in Opt({JsonObject(d) : d \in bodies} \cup Malformed)}

ApiEvents == GetEvents \cup PutEvents(AchievementBodies) \cup {EmptyDict, [httpMethod |-> "DELETE"]}

SampleEvents == GetEvents \cup PutEvents(TeacherBodies \cup {EmptyDict}) \cup {EmptyDict, [httpMethod |-> "DELETE"]}

\* the item of the README's `aws dynamodb put-item --table-name students-evaluation-by-q`
SeedItem(sid, p) == [students_id |-> sid, period |-> p, subjects |-> "scores"]

-----------------------------------------------------------------------------
(* Initial state *)

Runs == {"run1", "run2"}

NoResponse ==
    [fn |-> "none", req |-> EmptyDict, statusCode |-> 0, body |-> EmptyDict, calls |-> <<>>,
     assigned |-> {}, removed |-> {}]

InitStore ==
    /\ store = [t \in Tables |-> EmptyDict]
    /\ now = 0
    /\ last = NoResponse
    /\ written = EmptyDict

InitRuns(scheduled) ==
    /\ pc = [r \in Runs |-> IF r \in scheduled THEN "idle" ELSE "off"]
    /\ ev = [r \in Runs |-> EmptyDict]
    /\ students_id = [r \in Runs |-> <<>>]
    /\ period = [r \in Runs |-> ""]
    /\ loop_count = [r \in Runs |-> 0]
    /\ current_id = [r \in Runs |-> 0]
    /\ i = [r \in Runs |-> 0]
    /\ results = [r \in Runs |-> <<>>]
    /\ agent_response = [r \in Runs |-> ""]
    /\ delivered = [r \in Runs |-> <<>>]
    /\ ret = [r \in Runs |-> {}]
    /\ published = [r \in Runs |-> <<>>]
    /\ trace = [r \in Runs |-> <<>>]

-----------------------------------------------------------------------------
(* Facade requests, each handled in one step *)

\* history: the attributes a step gave a new value, as <<table, key, attribute>>
Assigned(old, new) ==
    UNION {UNION {{<<t, k, a>> : a \in {x \in DOMAIN new[t][k] :
                                          \/ k \notin DOMAIN old[t]
                                          \/ x \notin DOMAIN old[t][k]
                                          \/ old[t][k][x] # new[t][k][x]}} :
                  k \in DOMAIN new[t]} : t \in Tables}

\* history: the attributes a step took away
Removed(old, new) ==
    UNION {UNION {{<<t, k, a>> : a \in {x \in DOMAIN old[t][k] :
                                          \/ k \notin DOMAIN new[t]
                                          \/ x \notin DOMAIN new[t][k]}} :
                  k \in DOMAIN old[t]} : t \in Tables}

Respond(fn, event, r) ==
    last' = [fn |-> fn, req |-> event, statusCode |-> r.statusCode, body |-> r.body,
             calls |-> r.calls,
             assigned |-> IF r.store = store THEN {} ELSE Assigned(store, r.store),
             removed |-> IF r.store = store THEN {} ELSE Removed(store, r.store)]

\* history: forget what a key's last PUT stored once the item changes again
StillWritten(old, new) ==
    [k \in {x \in DOMAIN written : ItemOf(new, x) = ItemOf(old, x)} |-> written[k]]

\* a store call returns or raises; a request that makes none has one outcome
EvaluationApi(events) ==
    \E event \in events :
    \E r \in {ApiLambdaHandler(event, store, now, storeOk) : storeOk \in BOOLEAN} :
        /\ store' = r.store
        /\ Respond("api", event, r)
        /\ written' = IF r.statusCode = 200 /\ event.httpMethod = "PUT"
                      THEN LET body == Val(event.body).v
                           IN  Upsert(written, Key(body.students_id, body.period),
                                      [achievements |-> body.achievements, at |-> now])
                      ELSE written
        /\ UNCHANGED <<now, runVars>>

SampleApi(events) ==
    \E event \in events :
    \E r \in {SampleLambdaHandler(event, store, storeOk) : storeOk \in BOOLEAN} :
        /\ store' = r.store
        /\ Respond("sample", event, r)
        /\ written' = StillWritten(store[ApiTableName], r.store[ApiTableName])
        /\ UNCHANGED <<now, runVars>>

\* the agent calls its action group; the query returns or raises
Lookup(events) ==
    \E event \in events :
    \E r \in {LookupLambdaHandler(event, store, storeOk) : storeOk \in BOOLEAN} :
        /\ Respond("lookup", event, r)
        /\ UNCHANGED <<store, now, written, runVars>>

\* the operator's put-item of the README
OperatorPutItem ==
    \E sid \in ValidIds, p \in ValidPeriods :
        /\ store' = [store EXCEPT ![ApiTableName] = PutItem(@, SeedItem(sid, p))]
        /\ written' = StillWritten(store[ApiTableName], store'[ApiTableName])
        /\ last' = NoResponse
        /\ UNCHANGED <<now, runVars>>

Tick ==
    /\ now < MaxNow
    /\ now' = now + 1
    /\ last' = NoResponse
    /\ UNCHANGED <<store, written, runVars>>

InitApi == InitStore /\ InitRuns({})

NextApi == EvaluationApi(ApiEvents) \/ SampleApi(SampleEvents) \/ OperatorPutItem \/ Tick

SpecApi == InitApi /\ [][NextApi]_vars

-----------------------------------------------------------------------------
(* CallAgentFunction: lambda_handler, one step per external call *)

\* int(x) of a payload value: {} when it raises
IntOf(j) ==
    IF "number" \in DOMAIN j THEN {j.number}
    ELSE IF IsInt(j.string) THEN {ParseInt(j.string)} ELSE {}

DefaultStudentsId == <<"1">>

DefaultPeriod == "202504"

DefaultLoopCount == 3

SleepSeconds == 30

\* 'SNS_TOPIC_ARN' in os.environ
HasTopic == TRUE

Step(op, id, text) == [op |-> op, id |-> id, text |-> text]

Note(r, op, id) == trace' = [trace EXCEPT ![r] = Append(@, Step(op, id, ""))]

NoteText(r, op, id, text) == trace' = [trace EXCEPT ![r] = Append(@, Step(op, id, text))]

\* a loop that never advances its id
NextIdStuck(n) == n

\* line 504: current_id += 1
NextId(n) == n + 1

Goto(r, label) == pc' = [pc EXCEPT ![r] = label]

SuccessNotice(p, ids) == [kind |-> "success", period |-> p, ids |-> ids, students_id |-> <<>>]

FailureNotice(p, sid) == [kind |-> "failure", period |-> p, ids |-> <<>>, students_id |-> sid]

\* a start that takes an id it cannot parse as 0 and goes on
StartLenient(r, event) ==
    /\ pc[r] = "idle"
    /\ ev' = [ev EXCEPT ![r] = event]
    /\ students_id' = [students_id EXCEPT ![r] =
                          IF "students_id" \in DOMAIN event THEN event.students_id
                          ELSE DefaultStudentsId]
    /\ period' = [period EXCEPT ![r] =
                     IF "period" \in DOMAIN event THEN event.period ELSE DefaultPeriod]
    /\ LET n == IF "loop_count" \in DOMAIN event THEN IntOf(event.loop_count)
                ELSE {DefaultLoopCount}
           sid == students_id'[r]
       IN  IF n = {}
           THEN /\ Goto(r, "except")
                /\ Note(r, "int_raised", <<>>)
                /\ UNCHANGED <<loop_count, current_id>>
           ELSE /\ loop_count' = [loop_count EXCEPT ![r] = Val(n)]
                /\ current_id' = [current_id EXCEPT ![r] = IF IsInt(sid) THEN ParseInt(sid) ELSE 0]
                /\ Goto(r, "loop")
                /\ UNCHANGED trace
    /\ last' = NoResponse
    /\ UNCHANGED <<store, now, written, i, results, agent_response, delivered, ret, published>>

\* lines 441-450: read the payload, int(loop_count), int(students_id)
Start(r, event) ==
    /\ pc[r] = "idle"
    /\ ev' = [ev EXCEPT ![r] = event]
    /\ students_id' = [students_id EXCEPT ![r] =
                          IF "students_id" \in DOMAIN event THEN event.students_id
                          ELSE DefaultStudentsId]
    /\ period' = [period EXCEPT ![r] =
                     IF "period" \in DOMAIN event THEN event.period ELSE DefaultPeriod]
    /\ LET n == IF "loop_count" \in DOMAIN event THEN IntOf(event.loop_count)
                ELSE {DefaultLoopCount}
           sid == students_id'[r]
       IN  IF n = {}
           THEN /\ Goto(r, "except")
                /\ Note(r, "int_raised", <<>>)
                /\ UNCHANGED <<loop_count, current_id>>
           ELSE /\ loop_count' = [loop_count EXCEPT ![r] = Val(n)]
                /\ IF IsInt(sid)
                   THEN /\ current_id' = [current_id EXCEPT ![r] = ParseInt(sid)]
                        /\ Goto(r, "loop")
                        /\ UNCHANGED trace
                   ELSE /\ Goto(r, "except")
                        /\ Note(r, "int_raised", sid)
                        /\ UNCHANGED current_id
    /\ last' = NoResponse
    /\ UNCHANGED <<store, now, written, i, results, agent_response, delivered, ret, published>>

\* a loop that catches a failed agent call itself and goes on to the next id
InvokeAgentSkipping(r) ==
    /\ pc[r] = "loop"
    /\ i[r] < loop_count[r]
    /\ \/ /\ Goto(r, "stream")
          /\ Note(r, "invoke_agent", IntToStr(current_id[r]))
          /\ agent_response' = [agent_response EXCEPT ![r] = ""]
          /\ UNCHANGED <<current_id, i>>
       \/ /\ Goto(r, "loop")
          /\ Note(r, "invoke_agent_raised", IntToStr(current_id[r]))
          /\ current_id' = [current_id EXCEPT ![r] = @ + 1]
          /\ i' = [i EXCEPT ![r] = @ + 1]
          /\ UNCHANGED agent_response
    /\ delivered' = [delivered EXCEPT ![r] = <<>>]
    /\ last' = NoResponse
    /\ UNCHANGED <<store, now, written, ev, students_id, period, loop_count, results, ret,
                   published>>

\* a loop whose body runs once before its count is looked at
InvokeAgentAtLeastOnce(r) ==
    /\ pc[r] = "loop"
    /\ i[r] < loop_count[r] \/ i[r] = 0
    /\ \/ /\ Goto(r, "stream")
          /\ Note(r, "invoke_agent", IntToStr(current_id[r]))
          /\ agent_response' = [agent_response EXCEPT ![r] = ""]
          /\ delivered' = [delivered EXCEPT ![r] = <<>>]
       \/ /\ Goto(r, "except")
          /\ Note(r, "invoke_agent_raised", IntToStr(current_id[r]))
          /\ delivered' = [delivered EXCEPT ![r] = <<>>]
          /\ UNCHANGED agent_response
    /\ last' = NoResponse
    /\ UNCHANGED <<store, now, written, ev, students_id, period, loop_count, current_id, i,
                   results, ret, published>>

\* lines 451-468: the next iteration calls invoke_agent, which returns a stream or raises
InvokeAgent(r) ==
    /\ pc[r] = "loop"
    /\ i[r] < loop_count[r]
    /\ \/ /\ Goto(r, "stream")
          /\ Note(r, "invoke_agent", IntToStr(current_id[r]))
          /\ agent_response' = [agent_response EXCEPT ![r] = ""]
          /\ delivered' = [delivered EXCEPT ![r] = <<>>]
       \/ /\ Goto(r, "except")
          /\ Note(r, "invoke_agent_raised", IntToStr(current_id[r]))
          /\ delivered' = [delivered EXCEPT ![r] = <<>>]
          /\ UNCHANGED agent_response
    /\ last' = NoResponse
    /\ UNCHANGED <<store, now, written, ev, students_id, period, loop_count, current_id, i,
                   results, ret, published>>

\* a loop one iteration short
ExitLoopEarly(r) ==
    /\ pc[r] = "loop"
    /\ i[r] >= loop_count[r] - 1
    /\ Goto(r, "publish")
    /\ last' = NoResponse
    /\ UNCHANGED <<store, now, written, ev, students_id, period, loop_count, current_id, i,
                   results, agent_response, delivered, ret, published, trace>>

\* lines 451, 507: range(loop_count) is exhausted
ExitLoop(r) ==
    /\ pc[r] = "loop"
    /\ i[r] >= loop_count[r]
    /\ Goto(r, "publish")
    /\ last' = NoResponse
    /\ UNCHANGED <<store, now, written, ev, students_id, period, loop_count, current_id, i,
                   results, agent_response, delivered, ret, published, trace>>

\* bytes are hexadecimal octets; "61" is the letter a, "C3" "A9" the two octets of
\* one accented letter, written "E" in the texts of the model
ChunkEvent(bytes) == [chunk |-> [bytes |-> bytes]]

EmptyChunkEvent == [chunk |-> EmptyDict]

TraceEvent == [trace |-> "rationale"]

\* chunks of one letter, of one two-octet letter, of its first octet alone; a chunk
\* without bytes; a trace event
StreamEvents ==
    {ChunkEvent(<<"61">>), ChunkEvent(<<"C3", "A9">>), ChunkEvent(<<"C3">>),
     EmptyChunkEvent, TraceEvent}

\* a chunk of one letter, and a trace event
FewStreamEvents == {ChunkEvent(<<"61">>), TraceEvent}

\* bytes.decode('utf-8'): {text}, or {} where it raises UnicodeDecodeError
RECURSIVE Utf8Decode(_)
Utf8Decode(bytes) ==
    IF bytes = <<>> THEN {""}
    ELSE IF Head(bytes) = "61"
    THEN {"a" \o t : t \in Utf8Decode(Tail(bytes))}
    ELSE IF Head(bytes) = "C3" /\ Len(bytes) >= 2 /\ bytes[2] = "A9"
    THEN {"E" \o t : t \in Utf8Decode(SubSeq(bytes, 3, Len(bytes)))}
    ELSE {}

\* agent_response as replaced by the latest fragment
CollectLatest(text, event) ==
    IF "chunk" \in DOMAIN event /\ "bytes" \in DOMAIN event.chunk
    THEN Utf8Decode(event.chunk.bytes)
    ELSE {text}

\* lines 477-482: the text after one stream event, {} where decode raises
Collect(text, event) ==
    IF "chunk" \in DOMAIN event /\ "bytes" \in DOMAIN event.chunk
    THEN {text \o t : t \in Utf8Decode(event.chunk.bytes)}
    ELSE {text}

\* lines 476-482: the stream delivers one more event; decode raises on bytes that
\* are not UTF-8
StreamEvent(r, event) ==
    /\ pc[r] = "stream"
    /\ Len(delivered[r]) < MaxEvents
    /\ IF Collect(agent_response[r], event) = {}
       THEN /\ Goto(r, "except")
            /\ Note(r, "stream_raised", IntToStr(current_id[r]))
            /\ delivered' = [delivered EXCEPT ![r] = <<>>]
            /\ UNCHANGED agent_response
       ELSE /\ delivered' = [delivered EXCEPT ![r] = Append(@, event)]
            /\ agent_response' = [agent_response EXCEPT ![r] = Val(Collect(@, event))]
            /\ UNCHANGED <<pc, trace>>
    /\ last' = NoResponse
    /\ UNCHANGED <<store, now, written, ev, students_id, period, loop_count, current_id, i,
                   results, ret, published>>

\* a loop that hands the write to the background and calls the agent for the next id
StreamEndDetached(r) ==
    /\ pc[r] = "stream"
    /\ \/ /\ Goto(r, "loop")
          /\ current_id' = [current_id EXCEPT ![r] = @ + 1]
          /\ i' = [i EXCEPT ![r] = @ + 1]
          /\ UNCHANGED <<trace, delivered>>
       \/ /\ Goto(r, "except")
          /\ Note(r, "stream_raised", IntToStr(current_id[r]))
          /\ delivered' = [delivered EXCEPT ![r] = <<>>]
          /\ UNCHANGED <<current_id, i>>
    /\ last' = NoResponse
    /\ UNCHANGED <<store, now, written, ev, students_id, period, loop_count,
                   results, agent_response, ret, published>>

\* lines 476-482: the stream ends, or raises while it is read
StreamEnd(r) ==
    /\ pc[r] = "stream"
    /\ \/ /\ Goto(r, "write")
          /\ UNCHANGED <<trace, delivered>>
       \/ /\ Goto(r, "except")
          /\ Note(r, "stream_raised", IntToStr(current_id[r]))
          /\ delivered' = [delivered EXCEPT ![r] = <<>>]
    /\ last' = NoResponse
    /\ UNCHANGED <<store, now, written, ev, students_id, period, loop_count, current_id, i,
                   results, agent_response, ret, published>>

\* a write that keeps the date the item already has
put_agent_evaluation_first_date(tbl, sid, p, text, t) ==
    UpdateItemSet(tbl, sid, p,
                  [agent_evaluation |-> text,
                   evaluation_date |-> IF "evaluation_date" \in DOMAIN ItemOf(tbl, Key(sid, p))
                                       THEN ItemOf(tbl, Key(sid, p)).evaluation_date
                                       ELSE SafeStamp(t)])

\* a write that puts the whole item
put_agent_evaluation_replace(tbl, sid, p, text, t) ==
    PutItem(tbl, [students_id |-> sid, period |-> p, agent_evaluation |-> text,
                  evaluation_date |-> SafeStamp(t)])

\* lines 490-500: update_item with SET agent_evaluation = :ae, evaluation_date = :ed
put_agent_evaluation(tbl, sid, p, text, t) ==
    UpdateItemSet(tbl, sid, p, [agent_evaluation |-> text, evaluation_date |-> SafeStamp(t)])

\* lines 487-504: update_item returns or raises
WriteEvaluation(r) ==
    /\ pc[r] = "write"
    /\ \/ /\ store' = [store EXCEPT ![CallAgentTableName] =
                          put_agent_evaluation(@, IntToStr(current_id[r]), period[r],
                                               agent_response[r], now)]
          /\ written' = StillWritten(store[ApiTableName], store'[ApiTableName])
          /\ results' = [results EXCEPT ![r] = Append(@, IntToStr(current_id[r]))]
          /\ current_id' = [current_id EXCEPT ![r] = NextId(@)]
          /\ Goto(r, "sleep")
          /\ NoteText(r, "update_item", IntToStr(current_id[r]), agent_response[r])
          /\ UNCHANGED delivered
       \/ /\ Goto(r, "except")
          /\ Note(r, "update_item_raised", IntToStr(current_id[r]))
          /\ delivered' = [delivered EXCEPT ![r] = <<>>]
          /\ UNCHANGED <<store, written, results, current_id>>
    /\ last' = NoResponse
    /\ UNCHANGED <<now, ev, students_id, period, loop_count, i, agent_response, ret,
                   published>>

\* a pause that grows with the iteration
SleepBackoff(r) ==
    /\ pc[r] = "sleep"
    /\ now' = now + SleepSeconds * (i[r] + 1)
    /\ i' = [i EXCEPT ![r] = @ + 1]
    /\ Goto(r, "loop")
    /\ Note(r, "sleep", <<>>)
    /\ last' = NoResponse
    /\ delivered' = [delivered EXCEPT ![r] = <<>>]
    /\ UNCHANGED <<store, written, ev, students_id, period, loop_count, current_id, results,
                   agent_response, ret, published>>

\* a pause of 20 seconds
SleepShort(r) ==
    /\ pc[r] = "sleep"
    /\ now' = now + 20
    /\ i' = [i EXCEPT ![r] = @ + 1]
    /\ Goto(r, "loop")
    /\ Note(r, "sleep", <<>>)
    /\ last' = NoResponse
    /\ delivered' = [delivered EXCEPT ![r] = <<>>]
    /\ UNCHANGED <<store, written, ev, students_id, period, loop_count, current_id, results,
                   agent_response, ret, published>>

\* line 505: time.sleep(30), then the next turn of the loop
Sleep(r) ==
    /\ pc[r] = "sleep"
    /\ now' = now + SleepSeconds
    /\ i' = [i EXCEPT ![r] = @ + 1]
    /\ Goto(r, "loop")
    /\ Note(r, "sleep", <<>>)
    /\ last' = NoResponse
    /\ delivered' = [delivered EXCEPT ![r] = <<>>]
    /\ UNCHANGED <<store, written, ev, students_id, period, loop_count, current_id, results,
                   agent_response, ret, published>>

\* a handler that swallows a failed success publish and returns 200
PublishSuccessQuiet(r) ==
    /\ pc[r] = "publish"
    /\ \/ /\ published' = [published EXCEPT ![r] = Append(@, SuccessNotice(period[r], results[r]))]
          /\ Note(r, "publish_success", <<>>)
       \/ /\ Note(r, "publish_success_raised", <<>>)
          /\ UNCHANGED published
    /\ ret' = [ret EXCEPT ![r] = {200}]
    /\ Goto(r, "done")
    /\ last' = NoResponse
    /\ UNCHANGED <<store, now, written, ev, students_id, period, loop_count, current_id, i,
                   results, agent_response, delivered>>

\* lines 507-521: the success notification, then the 200 result
PublishSuccess(r) ==
    /\ pc[r] = "publish"
    /\ \/ /\ HasTopic
          /\ published' = [published EXCEPT ![r] = Append(@, SuccessNotice(period[r], results[r]))]
          /\ Note(r, "publish_success", <<>>)
          /\ ret' = [ret EXCEPT ![r] = {200}]
          /\ Goto(r, "done")
       \/ /\ HasTopic
          /\ Note(r, "publish_success_raised", <<>>)
          /\ Goto(r, "except")
          /\ UNCHANGED <<published, ret>>
    /\ last' = NoResponse
    /\ UNCHANGED <<store, now, written, ev, students_id, period, loop_count, current_id, i,
                   results, agent_response, delivered>>

\* lines 543, 569: timeout: cdk.Duration.seconds(300); retryAttempts: 0
FunctionTimeout == 300

RetryAttempts == 0

\* a trigger that delivers a failed invocation once more
RedeliveredOnce(r, label) ==
    IF Len(SelectSeq(trace[r], LAMBDA x : x.op \in {"publish_failure", "publish_failure_raised",
                                                     "killed"})) < 1
    THEN "idle" ELSE label

\* where a failed invocation leaves the run: the schedule's target delivers it
\* again while it has retry attempts left
Redelivered(r, label) ==
    IF Len(SelectSeq(trace[r], LAMBDA x : x.op \in {"publish_failure", "publish_failure_raised",
                                                     "killed"})) < RetryAttempts
    THEN "idle" ELSE label

\* lines 523-541: the failure notification, then the 500 result; a publish that
\* raises here leaves the handler
HandleException(r) ==
    /\ pc[r] = "except"
    /\ \/ /\ HasTopic
          /\ published' = [published EXCEPT ![r] =
                              Append(@, FailureNotice(period[r], students_id[r]))]
          /\ Note(r, "publish_failure", <<>>)
          /\ ret' = [ret EXCEPT ![r] = {500}]
          /\ Goto(r, Redelivered(r, "done"))
       \/ /\ HasTopic
          /\ Note(r, "publish_failure_raised", <<>>)
          /\ Goto(r, Redelivered(r, "raised"))
          /\ UNCHANGED <<published, ret>>
    /\ last' = NoResponse
    /\ UNCHANGED <<store, now, written, ev, students_id, period, loop_count, current_id, i,
                   results, agent_response, delivered>>

\* the seconds a call of the agent, the store or the topic may take
CallSeconds == {70, 100}

\* time passes while the run waits for the agent's stream, the store or the topic
Elapse(r) ==
    /\ pc[r] \in {"stream", "write", "publish", "except"}
    /\ now < FunctionTimeout
    /\ \E d \in CallSeconds :
           /\ now' = now + d
           /\ NoteText(r, "time", IntToStr(d), pc[r])
    /\ last' = NoResponse
    /\ UNCHANGED <<store, written, pc, ev, students_id, period, loop_count, current_id, i,
                   results, agent_response, delivered, ret, published>>

\* a host whose timeout raises in the handler, which then reports the failure
KillCaught(r) ==
    /\ pc[r] \in {"loop", "stream", "write", "sleep", "publish", "except"}
    /\ now >= FunctionTimeout
    /\ Goto(r, "except")
    /\ Note(r, "killed", <<>>)
    /\ now' = 0
    /\ last' = NoResponse
    /\ UNCHANGED <<store, written, ev, students_id, period, loop_count, current_id, i,
                   results, agent_response, delivered, ret, published>>

\* line 543: the host stops the invocation when its timeout is up
Kill(r) ==
    /\ pc[r] \in {"loop", "stream", "write", "sleep", "publish", "except"}
    /\ now >= FunctionTimeout
    /\ Goto(r, Redelivered(r, "killed"))
    /\ Note(r, "killed", <<>>)
    /\ last' = NoResponse
    /\ UNCHANGED <<store, now, written, ev, students_id, period, loop_count, current_id, i,
                   results, agent_response, delivered, ret, published>>

(* Scheduled payloads *)

StartIds == {<<"0", "9">>, <<"x">>}

RunPeriods == {"202505"}

LoopCounts == {JNum(n) : n \in -1..MaxLoop} \cup {JStr(<<"x">>)}

RunEvents ==
    {MkDict([students_id |-> s, period |-> p, loop_count |-> n]) :
        s \in Opt(StartIds), p \in Opt(RunPeriods), n \in Opt(LoopCounts)}

RunStep(r, events) ==
    \/ InvokeAgent(r)
    \/ ExitLoop(r)
    \/ \E event \in events : StreamEvent(r, event)
    \/ StreamEnd(r)
    \/ WriteEvaluation(r)
    \/ Sleep(r)
    \/ PublishSuccess(r)
    \/ HandleException(r)

NextRun == \E r \in Runs : (\E event \in RunEvents : Start(r, event)) \/ RunStep(r, FewStreamEvents)

InitRun == InitStore /\ InitRuns({"run1"})

\* lines 564-567: the schedule's input, and the same with a loop_count
HostEvents ==
    {MkDict([students_id |-> {<<"3", "0", "0", "0", "0">>}, period |-> {"202504"}, loop_count |-> n]) :
        n \in Opt({JNum(9), JNum(10)})}

\* one scheduled invocation under the host's clock and timeout
SpecHost ==
    InitRun /\ [][\E r \in Runs :
                      \/ \E event \in HostEvents : Start(r, event)
                      \/ now < FunctionTimeout /\ RunStep(r, {TraceEvent})
                      \/ Elapse(r)
                      \/ Kill(r)]_vars

SpecRun == InitRun /\ [][NextRun]_vars

-----------------------------------------------------------------------------
(* The stacks together: the facades, the action group and one scheduled run on
   the same keys *)

\* the key the run writes first
StackKeys == {<<DefaultStudentsId, DefaultPeriod>>}

StackApiEvents ==
    {[httpMethod |-> "GET", queryStringParameters |-> {[students_id |-> k[1], period |-> k[2]]}] :
        k \in StackKeys}
    \cup {[httpMethod |-> "PUT",
           body |-> {JsonObject([students_id |-> k[1], period |-> k[2], achievements |-> <<JStr("x")>>])}] :
             k \in StackKeys}

StackSampleEvents ==
    {[httpMethod |-> "GET", queryStringParameters |-> {[students_id |-> k[1], period |-> k[2]]}] :
        k \in StackKeys}
    \cup {[httpMethod |-> "PUT",
           body |-> {JsonObject([students_id |-> k[1], period |-> k[2], teacher_evaluation |-> "good"])}] :
             k \in StackKeys}

Param(name, value) == [name |-> name, value |-> value]

\* the agent's call with both parameters, and one with the key as direct fields
StackLookupEvents ==
    {[actionGroup |-> "get-data", function |-> GetDataFunction,
      parameters |-> <<Param("students_id", k[1]), Param("period", k[2])>>] : k \in StackKeys}
    \cup {[actionGroup |-> "get-data", function |-> GetDataFunction,
           students_id |-> <<"1">>, period |-> "202504"]}

\* the run starts from the default id "1" and the default period
StackRunEvents == {[loop_count |-> JNum(n)] : n \in 1..MaxLoop}

Next ==
    \/ EvaluationApi(StackApiEvents)
    \/ SampleApi(StackSampleEvents)
    \/ Lookup(StackLookupEvents)
    \/ \E r \in Runs : (\E event \in StackRunEvents : Start(r, event)) \/ RunStep(r, FewStreamEvents)

Spec == InitRun /\ [][Next]_vars

\* two keys for the facades, the first of them the run's first key
FrameKeys == {<<<<"1">>, "202504">>, <<<<"2">>, "202504">>}

\* the facades and one run on the two keys
SpecFrame ==
    InitRun
    /\ [][\/ EvaluationApi({[httpMethod |-> "PUT",
                              body |-> {JsonObject([students_id |-> k[1], period |-> k[2],
                                                    achievements |-> <<JStr("x")>>])}] :
                                k \in FrameKeys}
                            \cup {[httpMethod |-> "GET",
                                   queryStringParameters |-> {[students_id |-> k[1], period |-> k[2]]}] :
                                     k \in FrameKeys})
          \/ SampleApi({[httpMethod |-> "PUT",
                         body |-> {JsonObject([students_id |-> k[1], period |-> k[2],
                                               teacher_evaluation |-> "good"])}] :
                           k \in FrameKeys}
                       \cup {[httpMethod |-> "GET",
                              queryStringParameters |-> {[students_id |-> k[1], period |-> k[2]]}] :
                                k \in FrameKeys})
          \/ \E r \in Runs : (\E event \in StackRunEvents : Start(r, event))
                               \/ RunStep(r, {TraceEvent})]_vars

\* the keys the agent asks for: one the sample facade writes, one nobody writes
LookupKeys == {<<<<"1">>, "202504">>, <<<<"2">>, "202504">>}

\* parameter lists: both entries in either order, one or both entries missing, an
\* empty value, an entry without its value or its name
ParameterLists ==
    {<<Param("students_id", k[1]), Param("period", k[2])>> : k \in LookupKeys}
    \cup {<<Param("period", "202504"), Param("students_id", <<"1">>)>>}
    \cup {<<>>, <<Param("students_id", <<"1">>)>>, <<Param("period", "202504")>>}
    \cup {<<Param("students_id", <<>>), Param("period", "202504")>>,
          <<Param("students_id", <<"1">>), Param("period", "")>>}
    \cup {<<[name |-> "students_id"], Param("period", "202504")>>,
          <<[value |-> <<"1">>], Param("period", "202504")>>}

\* invocations with and without the envelope fields and the parameter list, and
\* invocations that carry the key as top-level fields
LookupEvents ==
    {MkDict([actionGroup |-> a, function |-> f, parameters |-> ps]) :
        a \in Opt({"get-data"}), f \in Opt({GetDataFunction, "other"}), ps \in Opt(ParameterLists)}
    \cup {[actionGroup |-> "get-data", function |-> GetDataFunction, messageVersion |-> "1.0",
           students_id |-> k[1], period |-> k[2]] : k \in LookupKeys}

SpecLookup == InitApi /\ [][Lookup(LookupEvents) \/ SampleApi(StackSampleEvents)]_vars

\* two invocations at once, over the ids "1", "2" and over the id "2"
TwoRunEvents ==
    {[students_id |-> <<"1">>, loop_count |-> JNum(2)], [students_id |-> <<"2">>, loop_count |-> JNum(1)]}

InitTwoRuns == InitStore /\ InitRuns(Runs)

SpecTwoRuns == InitTwoRuns /\ [][\E r \in Runs : (\E event \in TwoRunEvents : Start(r, event))
                         \/ RunStep(r, {ChunkEvent(<<"61">>)})]_vars

SpecStream == InitRun /\ [][\E r \in Runs : (\E event \in StackRunEvents : Start(r, event))
                         \/ RunStep(r, StreamEvents)]_vars

-----------------------------------------------------------------------------
(* Reading a response *)

IsMethod(fns, m) ==
    /\ last.fn \in fns
    /\ "httpMethod" \in DOMAIN last.req
    /\ last.req.httpMethod = m

\* the query parameters of the request just answered
LastQuery ==
    IF "queryStringParameters" \in DOMAIN last.req /\ last.req.queryStringParameters # {}
    THEN Val(last.req.queryStringParameters) ELSE EmptyDict

HasObjectBody == "body" \in DOMAIN last.req /\ last.req.body # {} /\ Val(last.req.body).t = "object"

\* the JSON object of the request just answered
LastBody == Val(last.req.body).v

BadKeyIn(d) == FalsySeq(Get(d, "students_id")) \/ FalsyStr(Get(d, "period"))

KeyIn(d) == Key(d.students_id, d.period)

-----------------------------------------------------------------------------
(* Properties *)

(* Reading a run *)

RaisedOps ==
    {"int_raised", "invoke_agent_raised", "stream_raised", "update_item_raised",
     "publish_success_raised", "publish_failure_raised"}

Ops(r, ops) == SelectSeq(trace[r], LAMBDA x : x.op \in ops)

NoStepFailed(r) == Ops(r, RaisedOps) = <<>>

Ended(r) == pc[r] \in {"done", "raised"}

\* the ids the run has written, in order
IdsWritten(r) == [k \in 1..Len(Ops(r, {"update_item"})) |-> Ops(r, {"update_item"})[k].id]

\* str(s), str(s + 1), ..., n ids from the run's start id
IdsFrom(r, n) == [k \in 1..n |-> IntToStr(ParseInt(students_id[r]) + k - 1)]

Kinds(r) == [k \in 1..Len(published[r]) |-> published[r][k].kind]

\* every write of the run is still what its record holds
WritesRetained(r) ==
    \A k \in 1..Len(Ops(r, {"update_item"})) :
        LET w == Ops(r, {"update_item"})[k]
            item == ItemOf(store[CallAgentTableName], Key(w.id, period[r]))
        IN  /\ "agent_evaluation" \in DOMAIN item
            /\ item.agent_evaluation = w.text

\* the run's agent call or store write failed
IterationFailed(r) ==
    Ops(r, {"invoke_agent_raised", "stream_raised", "update_item_raised"}) # <<>>

\* the position in the trace of that failure
FailurePos(r) ==
    CHOOSE k \in 1..Len(trace[r]) :
        trace[r][k].op \in {"invoke_agent_raised", "stream_raised", "update_item_raised"}

\* C1: a run of n >= 1 iterations that ended with no step failing wrote the ids
\* s, s+1, ..., s+n-1, each once and in that order, each record holds the text
\* written, and the one notification published is the success notification.
C1_RunWritesRange ==
    \A r \in Runs :
        (pc[r] = "done" /\ NoStepFailed(r) /\ loop_count[r] >= 1)
        => /\ IdsWritten(r) = IdsFrom(r, loop_count[r])
           /\ WritesRetained(r)
           /\ published[r] = <<SuccessNotice(period[r], IdsFrom(r, loop_count[r]))>>
           /\ ret[r] = {200}

\* C1 witness: the default three iterations from "09" wrote 9, 10 and 11
C1_Witness ==
    \E r \in Runs :
        /\ pc[r] = "done" /\ NoStepFailed(r)
        /\ loop_count[r] = 3
        /\ IdsWritten(r) = <<<<"9">>, <<"1", "0">>, <<"1", "1">>>>
        /\ Kinds(r) = <<"success">>

\* C2 (as claimed): once the agent call or the store write of iteration k has
\* failed and the run has ended, the k earlier writes are retained, nothing else
\* was written, no agent call followed, and exactly one notification, the
\* failure notification, was published.
C2_FailureAborts ==
    \A r \in Runs :
        (Ended(r) /\ IterationFailed(r))
        => /\ IdsWritten(r) = IdsFrom(r, i[r])
           /\ WritesRetained(r)
           /\ \A k \in FailurePos(r) + 1..Len(trace[r]) :
                 trace[r][k].op \notin {"invoke_agent", "invoke_agent_raised", "update_item"}
           /\ Kinds(r) = <<"failure">>

\* C2 (amended): the same, with one failure notification when the failure
\* publish succeeds and none when it raises; never a success notification.
C2_FailureAbortsAmended ==
    \A r \in Runs :
        (Ended(r) /\ IterationFailed(r))
        => /\ IdsWritten(r) = IdsFrom(r, i[r])
           /\ WritesRetained(r)
           /\ \A k \in FailurePos(r) + 1..Len(trace[r]) :
                 trace[r][k].op \notin {"invoke_agent", "invoke_agent_raised", "update_item"}
           /\ (pc[r] = "done" => Kinds(r) = <<"failure">> /\ ret[r] = {500})
           /\ (pc[r] = "raised" => Kinds(r) = <<>> /\ ret[r] = {})

\* C2 witness: the agent call of the second of three iterations failed, after the first wrote "9"
C2_Witness ==
    \E r \in Runs :
        /\ pc[r] = "done" /\ IterationFailed(r)
        /\ loop_count[r] = 3 /\ i[r] = 1
        /\ trace[r][FailurePos(r)].op = "invoke_agent_raised"
        /\ IdsWritten(r) = <<<<"9">>>>
        /\ Kinds(r) = <<"failure">>

\* C3: a run has published at most one notification, and a success notification
\* only once each of its n iterations has written its record.
C3_OneNotification ==
    \A r \in Runs :
        /\ Len(published[r]) <= 1
        /\ "success" \in {published[r][k].kind : k \in 1..Len(published[r])}
           => /\ Len(IdsWritten(r)) >= loop_count[r]
              /\ IdsWritten(r) = IdsFrom(r, Len(IdsWritten(r)))
              /\ "failure" \notin {published[r][k].kind : k \in 1..Len(published[r])}

\* C3 witness: the success publish raised after two writes, and the failure notification went out
C3_Witness ==
    \E r \in Runs :
        /\ pc[r] = "done"
        /\ Ops(r, {"publish_success_raised"}) # <<>>
        /\ Len(IdsWritten(r)) = 2
        /\ Kinds(r) = <<"failure">>

\* the texts only
IsTexts(list) == \A k \in DOMAIN list : "string" \in DOMAIN list[k]

\* a GET of the facade of cdk-stack.ts whose get_item returned, for a key whose
\* last write was a successful PUT of that facade with a list of texts
GetAfterPut ==
    /\ IsMethod({"api"}, "GET") /\ ~BadKeyIn(LastQuery)
    /\ last.calls # <<>> /\ last.calls[1].ok
    /\ KeyIn(LastQuery) \in DOMAIN written
    /\ IsTexts(written[KeyIn(LastQuery)].achievements)

C5_TeacherEvaluationOnly ==
    (IsMethod({"sample"}, "PUT") /\ last.statusCode = 200)
    => /\ last.removed = {}
       /\ \A x \in last.assigned :
             /\ x[1] = SampleTableName
             /\ x[2] = KeyIn(LastBody)
             /\ x[3] \in {"teacher_evaluation", "students_id", "period"}
       /\ last.body.updated_item = ItemOf(store[SampleTableName], KeyIn(LastBody))
       /\ last.body.updated_item.teacher_evaluation = LastBody.teacher_evaluation

\* C5 witness: the record updated already held the run's agent_evaluation and evaluation_date
C5_Witness ==
    /\ IsMethod({"sample"}, "PUT") /\ last.statusCode = 200
    /\ <<SampleTableName, KeyIn(LastBody), "teacher_evaluation">> \in last.assigned
    /\ {"agent_evaluation", "evaluation_date", "teacher_evaluation"}
           \subseteq DOMAIN last.body.updated_item

\* C6 (as claimed): a successful facade PUT gives a new value to achievements and
\* updated_at only (and to the key of a record it creates) and removes no attribute.
C6_PutKeepsOtherFields ==
    (IsMethod({"api"}, "PUT") /\ last.statusCode = 200)
    => /\ last.removed = {}
       /\ \A x \in last.assigned :
             x[3] \in {"achievements", "updated_at", "students_id", "period"}

\* C8: a facade PUT whose JSON object lacks achievements, students_id or period, or
\* holds an empty one, is answered 400 and neither calls nor changes the store.
C8_BadPutRejected ==
    (IsMethod({"api"}, "PUT") /\ HasObjectBody
        /\ (BadKeyIn(LastBody) \/ FalsySeq(Get(LastBody, "achievements"))))
    => /\ last.statusCode = 400
       /\ last.calls = <<>>
       /\ last.assigned = {} /\ last.removed = {}

\* C8 witness: a PUT without achievements is refused while the table holds that key
C8_Witness ==
    /\ IsMethod({"api"}, "PUT") /\ HasObjectBody
    /\ ~BadKeyIn(LastBody) /\ "achievements" \notin DOMAIN LastBody
    /\ last.statusCode = 400
    /\ KeyIn(LastBody) \in DOMAIN store[ApiTableName]

\* C9 (as claimed): a PUT without a body (absent or null) is answered 400 by both variants.
C9_NoBodyIs400 ==
    (IsMethod({"api", "sample"}, "PUT") /\ ("body" \notin DOMAIN last.req \/ last.req.body = {}))
    => last.statusCode = 400

\* C10 (as claimed): a GET whose students_id or period is missing or empty is answered
\* 400 by both variants, and no store call is made.
C10_BadGetRejected ==
    (IsMethod({"api", "sample"}, "GET") /\ BadKeyIn(LastQuery))
    => last.statusCode = 400 /\ last.calls = <<>>

\* the key a lookup was asked for, when it went on to query
LookupAnswered ==
    /\ last.fn = "lookup" /\ last.statusCode = 0
    /\ "json" \in DOMAIN last.body.response.responseBody

LookupKey ==
    Key(Val(FirstValue(last.req.parameters, "students_id").value),
        Val(FirstValue(last.req.parameters, "period").value))

\* the writes of the runs to the key of the GET just answered
RunWrites(sid, p) ==
    {w \in UNION {{trace[r][k] : k \in 1..Len(trace[r])} : r \in {x \in Runs : period[x] = p}} :
        w.op = "update_item" /\ w.id = sid}

\* C7 (as claimed): the lookup of a key finds the record a facade PUT stored for it,
\* and a facade GET of a key a run has written returns the run's agent_evaluation.
C7_SameStore ==
    /\ (LookupAnswered /\ LookupKey \in DOMAIN written)
       => /\ "data" \in DOMAIN last.body.response.responseBody.json
          /\ last.body.response.responseBody.json.data = <<store[ApiTableName][LookupKey]>>
    /\ (IsMethod({"api"}, "GET") /\ last.statusCode = 200 /\ ~BadKeyIn(LastQuery)
           /\ RunWrites(LastQuery.students_id, LastQuery.period) # {})
       => /\ "agent_evaluation" \in DOMAIN last.body
          /\ last.body.agent_evaluation
                \in {w.text : w \in RunWrites(LastQuery.students_id, LastQuery.period)}

\* a GET of a facade whose get_item returned, for a key its table does not hold
GetMiss ==
    /\ IsMethod({"api", "sample"}, "GET") /\ ~BadKeyIn(LastQuery)
    /\ last.calls # <<>> /\ last.calls[1].ok
    /\ KeyIn(LastQuery) \notin DOMAIN store[last.calls[1].table]

\* the dict the sample facade answers a miss with
SampleNotFound(k) == [message |-> "not found", students_id |-> k[1], period |-> k[2]]

StoreCallRaised ==
    /\ (IsMethod({"api", "sample"}, "GET") \/ IsMethod({"api", "sample"}, "PUT"))
    /\ last.calls # <<>> /\ ~last.calls[1].ok

\* C12: a facade GET or PUT whose store call raised is answered 500 by the handler,
\* and no attribute of any item was assigned or removed by the request.
C12_StoreErrorIs500 ==
    StoreCallRaised
    => /\ last.statusCode = 500
       /\ last.assigned = {} /\ last.removed = {}

\* C12 witness: put_item raised for a key the table holds, and the item is as it was
C12_Witness ==
    /\ StoreCallRaised /\ IsMethod({"api"}, "PUT")
    /\ last.statusCode = 500
    /\ KeyIn(LastBody) \in DOMAIN store[ApiTableName]
    /\ "subjects" \in DOMAIN store[ApiTableName][KeyIn(LastBody)]

\* the text of one delivered event: that of its chunk's bytes, none without them
TextOf(event) ==
    IF "chunk" \in DOMAIN event /\ "bytes" \in DOMAIN event.chunk
    THEN Val(Utf8Decode(event.chunk.bytes))
    ELSE ""

RECURSIVE Concatenation(_)
Concatenation(events) ==
    IF events = <<>> THEN "" ELSE TextOf(Head(events)) \o Concatenation(Tail(events))

\* the item of the id the run has just written
JustWritten(r) == ItemOf(store[CallAgentTableName], Key(results[r][Len(results[r])], period[r]))

\* C13: while a stream is read and once it has ended, agent_response is the
\* concatenation in delivery order of the texts of the delivered events that carry
\* chunk bytes, and that text is the agent_evaluation the iteration stores (the
\* empty text for a stream without such an event).
C13_StoredIsConcatenation ==
    \A r \in Runs :
        /\ pc[r] \in {"stream", "write"} => agent_response[r] = Concatenation(delivered[r])
        /\ pc[r] = "sleep" => JustWritten(r).agent_evaluation = Concatenation(delivered[r])

\* C13 witness: the second iteration stored two fragments in order, after the first
\* stored the empty text of a stream with a trace event only
C13_Witness ==
    \E r \in Runs :
        /\ pc[r] = "sleep" /\ i[r] = 1
        /\ delivered[r] = <<ChunkEvent(<<"61">>), ChunkEvent(<<"C3", "A9">>)>>
        /\ JustWritten(r).agent_evaluation = "aE"
        /\ trace[r][2] = Step("update_item", <<"1">>, "")
        /\ ItemOf(store[CallAgentTableName], Key(<<"1">>, period[r])).agent_evaluation = ""

\* the run was started with a students_id that int() does not take
BadStartId(r) == pc[r] \notin {"off", "idle"} /\ ~IsInt(students_id[r])

\* the run has called neither the agent nor the store
NothingDone(r) ==
    /\ Ops(r, {"invoke_agent", "invoke_agent_raised", "update_item", "update_item_raised"}) = <<>>
    /\ store[CallAgentTableName] = EmptyDict

\* C14 (as claimed): a run whose students_id is not an integer calls neither the
\* agent nor the store, and ends having published one failure notification and
\* returned the failure result.
C14_BadStartIdFails ==
    \A r \in Runs :
        BadStartId(r)
        => /\ NothingDone(r)
           /\ Ended(r) => Kinds(r) = <<"failure">> /\ ret[r] = {500}

\* C14 (amended): the same, with the failure notification and the failure result
\* when the failure publish succeeds, and neither when that publish raises.
C14_BadStartIdFailsAmended ==
    \A r \in Runs :
        BadStartId(r)
        => /\ NothingDone(r)
           /\ pc[r] = "done" => Kinds(r) = <<"failure">> /\ ret[r] = {500}
           /\ pc[r] = "raised" => Kinds(r) = <<>> /\ ret[r] = {}

\* C14 witness: the run given "x" ended with the failure notification naming "x"
C14_Witness ==
    \E r \in Runs :
        /\ BadStartId(r) /\ pc[r] = "done"
        /\ students_id[r] = <<"x">> /\ loop_count[r] = 2
        /\ published[r] = <<FailureNotice(period[r], <<"x">>)>>
        /\ ret[r] = {500}

\* an invocation without an envelope field, or one of get-data-from-dynamodb
\* without the parameter list or without one of its two entries
MalformedLookup(req) ==
    LET parameters == IF "parameters" \in DOMAIN req THEN req.parameters ELSE <<>>
        Named(name) == \E k \in 1..Len(parameters) : parameters[k].name = name
    IN  \/ "actionGroup" \notin DOMAIN req
        \/ "function" \notin DOMAIN req
        \/ /\ req.function = GetDataFunction
           /\ \A k \in 1..Len(parameters) : {"name", "value"} \subseteq DOMAIN parameters[k]
           /\ ~(Named("students_id") /\ Named("period"))

\* the response is the action response with that TEXT body
IsText(response_body) ==
    /\ last.statusCode = 0
    /\ last.body.response.responseBody = response_body

\* C15 (as claimed): every malformed invocation of the lookup is answered with the
\* action response whose TEXT body is the "both required" message, never with a
\* status-code object.
C15_MalformedIsText ==
    (last.fn = "lookup" /\ MalformedLookup(last.req)) => IsText([text |-> "both required"])

\* an invocation of get-data-from-dynamodb with the key as top-level fields
DirectFields(req) ==
    /\ {"actionGroup", "function", "students_id", "period"} \subseteq DOMAIN req
    /\ req.function = GetDataFunction
    /\ "parameters" \notin DOMAIN req

\* C16 (as claimed): given the key as top-level fields or as entries of the
\* parameter list, the lookup returns the text embedding the records of the key, or
\* the not-found message when the store has none.
C16_EitherForm ==
    /\ (last.fn = "lookup" /\ DirectFields(last.req) /\ last.statusCode # 500)
       => IsText([json |-> lookup_get_student_evaluation(store[LookupTableName],
                                                        last.req.students_id, last.req.period)])
    /\ LookupAnswered
       => IsText([json |-> lookup_get_student_evaluation(store[LookupTableName],
                                                        LookupKey[1], LookupKey[2])])

\* the step is the sample facade's PUT of teacher_evaluation on the key, answered 200
TeacherPutOn(k) ==
    /\ last'.fn = "sample" /\ last'.statusCode = 200
    /\ last'.req.httpMethod = "PUT"
    /\ Key(Val(last'.req.body).v.students_id, Val(last'.req.body).v.period) = k

\* the step is a run's update_item on the key
WroteOn(r, k) ==
    /\ Len(trace'[r]) = Len(trace[r]) + 1
    /\ trace'[r][Len(trace'[r])].op = "update_item"
    /\ Key(trace'[r][Len(trace'[r])].id, period[r]) = k

AgentPutOn(k) == \E r \in Runs : WroteOn(r, k)

AgentFields == {"agent_evaluation", "evaluation_date"}

\* the step leaves the fields of the set as the item had them
FieldsKept(old, new, fields) ==
    \A a \in fields \cap DOMAIN old : a \in DOMAIN new /\ new[a] = old[a]

\* C17: in every interleaving of the facade's teacher_evaluation updates and the
\* runs' agent_evaluation updates on a key, each update stores its own fields and
\* keeps the other's, so a record both have written holds teacher_evaluation,
\* agent_evaluation and evaluation_date, whichever came first.
C17_NoUpdateLost ==
    [][\A k \in DOMAIN store'[CallAgentTableName] :
          LET old == ItemOf(store[CallAgentTableName], k)
              new == store'[CallAgentTableName][k]
          IN  /\ DOMAIN old \subseteq DOMAIN new
              /\ TeacherPutOn(k)
                 => /\ new.teacher_evaluation = Val(last'.req.body).v.teacher_evaluation
                    /\ FieldsKept(old, new, AgentFields)
              /\ AgentPutOn(k)
                 => /\ \E r \in Runs : /\ new.agent_evaluation = agent_response[r]
                                       /\ new.evaluation_date = SafeStamp(now)
                    /\ FieldsKept(old, new, {"teacher_evaluation"})
              /\ ~TeacherPutOn(k) => FieldsKept(old, new, {"teacher_evaluation"})
              /\ ~AgentPutOn(k) => FieldsKept(old, new, AgentFields)]_vars

\* C17 witness: a record holds the teacher's text and the agent's text of the run's
\* write, and the run wrote after a facade update and before another
C17_Witness ==
    /\ last.fn = "sample" /\ last.statusCode = 200 /\ last.req.httpMethod = "PUT"
    /\ "agent_evaluation" \in DOMAIN last.body.updated_item
    /\ pc["run1"] = "sleep"
    /\ JustWritten("run1") = last.body.updated_item
    /\ {"teacher_evaluation", "agent_evaluation", "evaluation_date"} \subseteq DOMAIN JustWritten("run1")
    /\ JustWritten("run1").agent_evaluation = "a"

\* C18: with two runs at once, a step that writes a key stores the text and the
\* date of that one write, every other step leaves both fields of every key as they
\* are, and a run's write is never refused on account of what the key holds; so a
\* key holds the agent_evaluation and evaluation_date of the last write applied.
C18_LastWriteWins ==
    /\ [](\A r \in Runs : pc[r] = "write" => ENABLED (WriteEvaluation(r) /\ pc'[r] = "sleep"))
    /\ [][\A k \in DOMAIN store'[CallAgentTableName] :
            LET old == ItemOf(store[CallAgentTableName], k)
                new == store'[CallAgentTableName][k]
            IN  /\ \A r \in Runs :
                       WroteOn(r, k) => /\ new.agent_evaluation = agent_response[r]
                                        /\ new.evaluation_date = SafeStamp(now)
                /\ ~AgentPutOn(k)
                   => /\ FieldsKept(old, new, AgentFields)
                      /\ AgentFields \cap DOMAIN new = AgentFields \cap DOMAIN old]_vars

\* C18 witness: both runs have written id "2", with different texts at different
\* times, and the record holds the text and the date of the second run's write
C18_Witness ==
    /\ Ops("run1", {"update_item"}) # <<>> /\ Ops("run2", {"update_item"}) # <<>>
    /\ Ops("run1", {"update_item"})[Len(Ops("run1", {"update_item"}))] = Step("update_item", <<"2">>, "a")
    /\ Ops("run2", {"update_item"})[1] = Step("update_item", <<"2">>, "aa")
    /\ pc["run2"] = "sleep" /\ JustWritten("run2").students_id = <<"2">>
    /\ JustWritten("run2").agent_evaluation = "aa"
    /\ JustWritten("run2").evaluation_date = SafeStamp(2 * SleepSeconds)
    /\ now = 2 * SleepSeconds

\* the agent calls and the store writes of the run, in the order they were made
CallsAndWrites(r) == Ops(r, {"invoke_agent", "update_item"})

\* C19: in a run the agent calls and the store writes alternate, each write being
\* of the id of the call before it, so a call is made only after the write of the
\* iteration before; and while a call's stream is read it is the run's only call
\* without its write.
C19_Sequential ==
    \A r \in Runs :
        LET t == CallsAndWrites(r)
        IN  /\ \A k \in 1..Len(t) :
                   /\ t[k].op = IF k % 2 = 1 THEN "invoke_agent" ELSE "update_item"
                   /\ k % 2 = 0 => t[k].id = t[k - 1].id
                   /\ (k % 2 = 1 /\ k > 1) => t[k].id = IntToStr(ParseInt(t[k - 1].id) + 1)
            /\ pc[r] = "stream" => Len(t) % 2 = 1
            /\ pc[r] \in {"loop", "sleep", "publish"} => Len(t) % 2 = 0
            /\ pc[r] = "loop" => delivered[r] = <<>>

\* C19 witness: the second call's stream is being read after the first iteration's
\* call, write and pause
C19_Witness ==
    \E r \in Runs :
        /\ pc[r] = "stream" /\ i[r] = 1
        /\ Len(CallsAndWrites(r)) = 3
        /\ Ops(r, {"sleep"}) # <<>>
        /\ delivered[r] # <<>>

\* a pause follows every store write at once, and only a store write; an agent call
\* after the first comes straight after a pause
PauseAfterEveryWrite(r) ==
    \A k \in 1..Len(trace[r]) :
        /\ (trace[r][k].op = "update_item" /\ k < Len(trace[r])) => trace[r][k + 1].op = "sleep"
        /\ trace[r][k].op = "sleep" => k > 1 /\ trace[r][k - 1].op = "update_item"
        /\ (trace[r][k].op \in {"invoke_agent", "invoke_agent_raised"} /\ k > 1)
           => trace[r][k - 1].op = "sleep"

\* the step before the success publish of the run, "" when it is the first
BeforeSuccess(r) ==
    {IF k = 1 THEN "" ELSE trace[r][k - 1].op :
        k \in {x \in 1..Len(trace[r]) : trace[r][x].op \in {"publish_success", "publish_success_raised"}}}

\* C20 (as claimed): one pause of SleepSeconds follows each store write and comes
\* before the next agent call, and no pause lies between the last iteration and the
\* success notification.
C20_PauseBetweenIterations ==
    \A r \in {x \in Runs : pc[x] # "off"} :
        /\ PauseAfterEveryWrite(r)
        /\ now = SleepSeconds * Len(Ops(r, {"sleep"}))
        /\ "sleep" \notin BeforeSuccess(r)

\* C20 (amended): one pause of SleepSeconds follows each store write, the last
\* included, so a run of at least one iteration pauses once more between its last
\* write and the success notification.
C20_PauseAfterEachIteration ==
    \A r \in {x \in Runs : pc[x] # "off"} :
        /\ PauseAfterEveryWrite(r)
        /\ now = SleepSeconds * Len(Ops(r, {"sleep"}))
        /\ BeforeSuccess(r) \subseteq (IF loop_count[r] > 0 THEN {"sleep"} ELSE {""})
        /\ pc[r] = "publish" => Len(Ops(r, {"sleep"})) = Len(Ops(r, {"update_item"}))

\* C20 witness: a run of two iterations published its success after two pauses,
\* the second straight after the last write
C20_Witness ==
    \E r \in Runs :
        /\ pc[r] = "done" /\ Kinds(r) = <<"success">>
        /\ Len(Ops(r, {"sleep"})) = 2 /\ now = 2 * SleepSeconds
        /\ BeforeSuccess(r) = {"sleep"}
        /\ trace[r][Len(trace[r]) - 2].op = "update_item"

\* C21: once the host has killed a run, the writes of its completed iterations are
\* in the store, the run has published no notification and returned no result, and
\* from then on it writes and publishes nothing.
C21_KilledRunKeepsWrites ==
    /\ [](\A r \in Runs :
             Ops(r, {"killed"}) # <<>>
             => /\ pc[r] = "killed"
                /\ WritesRetained(r)
                /\ IdsWritten(r) = results[r]
                /\ published[r] = <<>> /\ ret[r] = {})
    /\ [][\A r \in Runs : Ops(r, {"killed"}) # <<>> => UNCHANGED <<store, published, pc>>]_vars

\* C21 witness: the timeout ran out in the store write of the second iteration; the
\* first iteration's record is there and nothing was published
C21_Witness ==
    \E r \in Runs :
        /\ pc[r] = "killed" /\ published[r] = <<>>
        /\ results[r] = <<<<"3", "0", "0", "0", "0">>>>
        /\ trace[r][Len(trace[r]) - 1].op = "time"
        /\ trace[r][Len(trace[r]) - 1].text = "write"
        /\ "agent_evaluation" \in DOMAIN ItemOf(store[CallAgentTableName],
                                                 Key(<<"3", "0", "0", "0", "0">>, "202504"))

C23_PairedFields ==
    \A t \in Tables : \A k \in DOMAIN store[t] :
        /\ "agent_evaluation" \in DOMAIN store[t][k] <=> "evaluation_date" \in DOMAIN store[t][k]
        /\ "achievements" \in DOMAIN store[t][k] <=> "updated_at" \in DOMAIN store[t][k]

\* C23 witness: the facade has put achievements on one record, and the run and the
\* sample facade have both updated another
C23_Witness ==
    /\ \E k \in DOMAIN store[ApiTableName] :
           {"achievements", "updated_at"} \subseteq DOMAIN store[ApiTableName][k]
    /\ \E k \in DOMAIN store[CallAgentTableName] :
           /\ {"agent_evaluation", "evaluation_date", "teacher_evaluation"}
                  \subseteq DOMAIN store[CallAgentTableName][k]
           /\ "achievements" \notin DOMAIN store[CallAgentTableName][k]

\* C24: a step never removes a record or changes its key attributes; a facade
\* request changes no record but the one of the key in its body, in the facade's own
\* table, and a run's step changes no record but the one of the id it writes.
C24_OnlyOwnKey ==
    [][LET Changed(t) == {k \in (DOMAIN store[t]) \cup (DOMAIN store'[t]) :
                             ItemOf(store[t], k) # ItemOf(store'[t], k)}
       IN  /\ \A t \in Tables : \A k \in DOMAIN store[t] :
                  /\ k \in DOMAIN store'[t]
                  /\ store'[t][k].students_id = store[t][k].students_id
                  /\ store'[t][k].period = store[t][k].period
           /\ last'.fn \in {"api", "sample"}
              => \A t \in Tables : \A k \in Changed(t) :
                     /\ t = IF last'.fn = "api" THEN ApiTableName ELSE SampleTableName
                     /\ k = KeyIn(Val(last'.req.body).v)
           /\ last'.fn \notin {"api", "sample"}
              => \A t \in Tables : \A k \in Changed(t) :
                     /\ t = CallAgentTableName
                     /\ \E r \in Runs : WroteOn(r, k) /\ k = Key(IntToStr(current_id[r]), period[r])]_vars

\* C24 witness: the run has written its records "1" and "2", the second after the
\* sample facade updated "1", and both facades have written "2" in their tables
C24_Witness ==
    /\ DOMAIN store[CallAgentTableName] = FrameKeys
    /\ DOMAIN store[ApiTableName] = FrameKeys
    /\ \A k \in FrameKeys :
           {"agent_evaluation", "teacher_evaluation"} \subseteq DOMAIN store[CallAgentTableName][k]
    /\ pc["run1"] = "sleep" /\ results["run1"] = <<<<"1">>, <<"2">>>>

\* C25 (as claimed): every store call the facade has just issued is allowed by
\* LambdaExecutionRole, and the update_item of a run's iteration is allowed by
\* CallAgentRole.
C25_StoreCallsPermitted ==
    LET Permits(role, action, table) ==
            action \in RolePolicy[role].actions /\ table \in RolePolicy[role].tables
    IN  /\ last.fn = "api"
           => \A k \in 1..Len(last.calls) :
                  Permits("LambdaExecutionRole", last.calls[k].action, last.calls[k].table)
        /\ \A r \in Runs :
               Ops(r, {"update_item", "update_item_raised"}) # <<>>
               => Permits("CallAgentRole", "UpdateItem", CallAgentTableName)

\* C26 (as claimed): a run that has left lambda_handler has returned a result of
\* status 200 or 500; no exception has left the handler.
C26_AlwaysReturns ==
    \A r \in Runs :
        /\ pc[r] # "raised"
        /\ pc[r] = "done" => ret[r] \in {{200}, {500}}

\* C27 (as claimed): a run that published a failure notification or returned 500
\* has written fewer ids than its loop_count, and an ended run that has written
\* loop_count ids published the success notification and returned 200.
C27_FailureOnlyForMissingWrite ==
    \A r \in Runs :
        /\ (published[r] # <<>> /\ Kinds(r) # <<"success">>) \/ ret[r] = {500}
           => Len(IdsWritten(r)) < loop_count[r]
        /\ (Ended(r) /\ loop_count[r] > 0 /\ Len(IdsWritten(r)) = loop_count[r])
           => Kinds(r) = <<"success">> /\ ret[r] = {200}

\* C27 (amended): a failure is reported only by a run in which some step raised,
\* the success publish included; a run that returns with no step raised has written
\* all its ids and is reported as success; a run whose success publish raised has
\* written all its ids and is reported as failure, or not at all when the failure
\* publish raises too.
C27_FailureOnlyAfterRaise ==
    \A r \in Runs :
        /\ (published[r] # <<>> /\ Kinds(r) # <<"success">>) \/ ret[r] = {500}
           => Ops(r, RaisedOps \ {"publish_failure_raised"}) # <<>>
        /\ (pc[r] = "done" /\ NoStepFailed(r))
           => /\ Kinds(r) = <<"success">> /\ ret[r] = {200}
              /\ Len(IdsWritten(r)) = IF loop_count[r] > 0 THEN loop_count[r] ELSE 0
        /\ Ops(r, {"publish_success_raised"}) # <<>>
           => /\ Len(IdsWritten(r)) = IF loop_count[r] > 0 THEN loop_count[r] ELSE 0
              /\ pc[r] = "done" => Kinds(r) = <<"failure">> /\ ret[r] = {500}
              /\ pc[r] = "raised" => Kinds(r) = <<>> /\ ret[r] = {}

\* C27 witness: both iterations of a run wrote, the success publish raised, and the
\* run published the failure notification and returned 500
C27_Witness ==
    \E r \in Runs :
        /\ pc[r] = "done" /\ loop_count[r] = 2 /\ Len(IdsWritten(r)) = 2
        /\ Ops(r, RaisedOps) = <<Step("publish_success_raised", <<>>, "")>>
        /\ Kinds(r) = <<"failure">> /\ ret[r] = {500}

\* C28 (as claimed): a run whose loop_count is 0 or negative calls no agent and
\* writes nothing, and once it has ended it has published exactly one notification,
\* the success notification with an empty list of ids, and returned 200.
C28_EmptyRunSucceeds ==
    \A r \in Runs :
        (/\ pc[r] # "idle" /\ "loop_count" \in DOMAIN ev[r]
         /\ IntOf(ev[r].loop_count) # {} /\ Val(IntOf(ev[r].loop_count)) <= 0)
        => /\ Ops(r, {"invoke_agent", "invoke_agent_raised", "update_item", "update_item_raised"}) = <<>>
           /\ Ended(r) => published[r] = <<SuccessNotice(period[r], <<>>)>> /\ ret[r] = {200}

\* C28 (amended): a run whose loop_count is 0 or negative calls no agent and writes
\* nothing; when its students_id parses and the success publish returns it has
\* published exactly the success notification with an empty list of ids and returned
\* 200; when the students_id does not parse or the success publish raises it is
\* reported as a failure, or not at all when the failure publish raises too.
C28_EmptyRunWritesNothing ==
    \A r \in Runs :
        (/\ pc[r] # "idle" /\ "loop_count" \in DOMAIN ev[r]
         /\ IntOf(ev[r].loop_count) # {} /\ Val(IntOf(ev[r].loop_count)) <= 0)
        => /\ Ops(r, {"invoke_agent", "invoke_agent_raised", "update_item", "update_item_raised"}) = <<>>
           /\ results[r] = <<>>
           /\ (pc[r] = "done" /\ NoStepFailed(r))
              => published[r] = <<SuccessNotice(period[r], <<>>)>> /\ ret[r] = {200}
           /\ (pc[r] = "done" /\ ~NoStepFailed(r))
              => /\ Kinds(r) = <<"failure">> /\ ret[r] = {500}
                 /\ ~IsInt(students_id[r]) \/ Ops(r, {"publish_success_raised"}) # <<>>
           /\ pc[r] = "raised" => published[r] = <<>> /\ ret[r] = {}

\* C28 witness: a run with loop_count -1 ended with the success notification for no
\* ids and the result 200, having called no agent and written nothing
C28_Witness ==
    \E r \in Runs :
        /\ pc[r] = "done" /\ loop_count[r] = -1 /\ IsInt(students_id[r])
        /\ Ops(r, {"invoke_agent", "update_item"}) = <<>>
        /\ published[r] = <<SuccessNotice(period[r], <<>>)>> /\ ret[r] = {200}

\* C29 (as claimed): the first record a run writes has the students_id of the payload,
\* character for character, as its key.
C29_KeyIsSuppliedString ==
    \A r \in Runs :
        (IsInt(students_id[r]) /\ Ops(r, {"update_item"}) # <<>>)
        => /\ Ops(r, {"update_item"})[1].id = students_id[r]
           /\ Key(students_id[r], period[r]) \in DOMAIN store[CallAgentTableName]

\* the seconds the steps of the run noted as running at `at` have taken
RECURSIVE SecondsAt(_, _)
SecondsAt(steps, at) ==
    IF steps = <<>> THEN 0
    ELSE SecondsAt(Tail(steps), at)
         + IF Head(steps).op = "time" /\ Head(steps).text \in at THEN ParseInt(Head(steps).id) ELSE 0

====
